---- MODULE Spec2Model ----
(***************************************************************************)
(* Model of car-search-backend.py: the /search fan-out over SITES, the     *)
(* criteria matcher, the MongoDB listings collection, the subscription     *)
(* set and the /notifications polling loop.                                *)
(***************************************************************************)
EXTENDS Integers, Sequences, FiniteSets, TLC

\* ---------------------------------------------------------------- bounds
\* longest result page a site serves
MaxPage == 3
\* most documents the collection holds for one url
MaxCopies == 2
\* most POST /subscribe calls counted per NotificationParams
MaxCalls == 2
\* POST /search requests in flight at one time
NumRequests == 1
\* /notifications connections open at one time
NumSessions == 2

\* ------------------------------------------------------- Optional values
\* Optional[T]: None is the empty tuple, a set value v is <<v>>.
None == <<>>
Some(v) == <<v>>
Val(o) == o[1]

\* Python truthiness of an Optional[int] / Optional[float]: None and 0 are falsy.
TruthyNum(o) == o # None /\ Val(o) # 0
\* Python truthiness of an Optional[str]: None and "" are falsy.
TruthyStr(o) == o # None /\ Val(o) # ""

\* str.lower() on the vocabulary of the model
lower(s) ==
    CASE s = "Diesel"  -> "diesel"
      [] s = "DIESEL"  -> "diesel"
      [] s = "Essence" -> "essence"
      [] s = "SUV"     -> "suv"
      [] s = "Paris"   -> "paris"
      [] s = "Lyon"    -> "lyon"
      [] s = "Peugeot" -> "peugeot"
      [] s = "Renault" -> "renault"
      [] s = "Clio"    -> "clio"
      [] OTHER         -> s

\* ------------------------------------------------------------ data model
\* SearchParams(): every field defaults to None
NoParams ==
    [make |-> None, model |-> None, min_price |-> None, max_price |-> None,
     min_year |-> None, max_year |-> None, max_mileage |-> None,
     fuel_type |-> None, location |-> None, body_type |-> None,
     transmission |-> None, color |-> None]

\* SITES, in dict order
SITES == <<"leboncoin", "lacentrale">>
SiteIdx == 1..Len(SITES)

\* A listing element of a result page, as the site's markup describes it.
Ad1 == [url |-> "u1", make |-> "Peugeot", model |-> "208", year |-> 2015,
        price |-> 4999, mileage |-> 90000, fuel_type |-> "Diesel",
        location |-> "Paris", malformed |-> FALSE]
Ad2 == [url |-> "u2", make |-> "Renault", model |-> "Clio", year |-> 2018,
        price |-> 7500, mileage |-> 40000, fuel_type |-> "essence",
        location |-> "Lyon", malformed |-> FALSE]
Ad3 == [url |-> "u3", make |-> "Peugeot", model |-> "308", year |-> 2020,
        price |-> 10001, mileage |-> 10, fuel_type |-> "diesel",
        location |-> "Paris", malformed |-> FALSE]
\* an element the site-specific selectors cannot parse
BadElem == [Ad1 EXCEPT !.url = "", !.malformed = TRUE]

Urls == {"u1", "u2", "u3"}

\* the elements each site puts on its result page, in the order they appear
SiteCatalog == << <<Ad1, Ad2>>, <<Ad2, BadElem, Ad3>> >>

\* parse_listing: a CarListing carrying the site name, or an exception for
\* an element the selectors do not fit
parse_listing(site_name, listing_elem) ==
    IF listing_elem.malformed
    THEN [raised |-> TRUE, listing |-> None]
    ELSE [raised |-> FALSE,
          listing |-> Some([site_source |-> site_name,
                            url |-> listing_elem.url,
                            make |-> listing_elem.make,
                            model |-> listing_elem.model,
                            year |-> listing_elem.year,
                            price |-> listing_elem.price,
                            mileage |-> listing_elem.mileage,
                            fuel_type |-> listing_elem.fuel_type,
                            location |-> listing_elem.location])]

\* matches_criteria that lets a listing pass a filter on a field it does
\* not carry
matches_criteria_wildcard(listing, params) ==
    IF TruthyNum(params.min_price) /\ listing.price < Val(params.min_price)
      THEN "False"
    ELSE IF TruthyNum(params.max_price) /\ listing.price > Val(params.max_price)
      THEN "False"
    ELSE IF TruthyNum(params.min_year) /\ listing.year < Val(params.min_year)
      THEN "False"
    ELSE IF TruthyNum(params.max_year) /\ listing.year > Val(params.max_year)
      THEN "False"
    ELSE IF TruthyNum(params.max_mileage) /\ listing.mileage > Val(params.max_mileage)
      THEN "False"
    ELSE IF TruthyStr(params.fuel_type)
            /\ lower(listing.fuel_type) # lower(Val(params.fuel_type))
      THEN "False"
    ELSE "True"

\* matches_criteria: "True", "False", or "AttributeError" when a filter reads
\* an attribute CarListing does not declare (body_type, transmission, color)
matches_criteria(listing, params) ==
    IF TruthyNum(params.min_price) /\ listing.price < Val(params.min_price)
      THEN "False"
    ELSE IF TruthyNum(params.max_price) /\ listing.price > Val(params.max_price)
      THEN "False"
    ELSE IF TruthyNum(params.min_year) /\ listing.year < Val(params.min_year)
      THEN "False"
    ELSE IF TruthyNum(params.max_year) /\ listing.year > Val(params.max_year)
      THEN "False"
    ELSE IF TruthyNum(params.max_mileage) /\ listing.mileage > Val(params.max_mileage)
      THEN "False"
    ELSE IF TruthyStr(params.fuel_type)
            /\ lower(listing.fuel_type) # lower(Val(params.fuel_type))
      THEN "False"
    ELSE IF TruthyStr(params.body_type) THEN "AttributeError"
    ELSE IF TruthyStr(params.transmission) THEN "AttributeError"
    ELSE IF TruthyStr(params.color) THEN "AttributeError"
    ELSE "True"

\* the loop of scrape_site over the selected elements: a parse error or an
\* error inside matches_criteria skips that element only
RECURSIVE scrape_elements(_, _, _)
scrape_elements(site_name, elems, params) ==
    IF elems = <<>> THEN <<>>
    ELSE LET p == parse_listing(site_name, Head(elems))
             rest == scrape_elements(site_name, Tail(elems), params)
         IN IF p.raised THEN rest
            ELSE IF matches_criteria(Val(p.listing), params) = "True"
                 THEN <<Val(p.listing)>> \o rest
                 ELSE rest

\* how one GET of a site's search_url ends
Outcomes == {"200", "status", "exception"}

\* the outcomes of a GET, with the site that accepts the request and never
\* answers
StalledOutcomes == Outcomes \cup {"hang"}

\* scrape_site whose GET waits for a silent site without limit
scrape_site_no_timeout(site_name, elems, params, outcome) ==
    CASE outcome = "200"       -> [kind |-> "list", via |-> outcome,
                                   items |-> scrape_elements(site_name, elems, params)]
      [] outcome = "exception" -> [kind |-> "list", via |-> outcome, items |-> <<>>]
      [] outcome = "hang"      -> [kind |-> "pending", via |-> outcome, items |-> <<>>]
      [] outcome = "status"    -> [kind |-> "None", via |-> outcome, items |-> <<>>]

\* scrape_site: the list of matching listings on status 200, [] when the
\* request or the body read raises, and None (no return statement is
\* reached) on any other status.  via remembers how the GET ended.
\* The ClientSession is created without a timeout argument, so each GET runs
\* under the session's default total timeout: a site that never answers
\* makes the GET raise asyncio.TimeoutError inside the try block.
scrape_site(site_name, elems, params, outcome) ==
    CASE outcome = "200"       -> [kind |-> "list", via |-> outcome,
                                   items |-> scrape_elements(site_name, elems, params)]
      [] outcome = "exception" -> [kind |-> "list", via |-> outcome, items |-> <<>>]
      [] outcome = "hang"      -> [kind |-> "list", via |-> outcome, items |-> <<>>]
      [] outcome = "status"    -> [kind |-> "None", via |-> outcome, items |-> <<>>]

\* a scrape_site task that has not finished
Pending == [kind |-> "pending", via |-> "none", items |-> <<>>]


\* ----------------------------------------------------------------- state
VARIABLES
    page,                  \* per site: the elements its search page shows now
    db_listings,           \* db.listings: number of documents stored per url
    rq_pc,                 \* per /search request: where search_cars stands, or the
                           \* exception that left it
    rq_params,             \* per /search request: its SearchParams
    rq_results,            \* per /search request: what each scrape_site task returned
    rq_all,                \* per /search request: all_listings
    active_subscriptions,  \* the module-level subscription set
    lastCall,              \* the last /subscribe or /unsubscribe call and its outcome
    subCalls,              \* per NotificationParams: /subscribe calls not yet withdrawn
    ws_pc,                 \* per /notifications connection: where send_notifications stands
    connected,             \* per /notifications connection: the client is still there
    pushed,                \* per /notifications connection: the messages sent
    m_params,              \* matcher harness: the SearchParams under evaluation
    m_listing,             \* matcher harness: the listing under evaluation
    m_result               \* matcher harness: what matches_criteria returned

searchVars == <<page, db_listings, rq_pc, rq_params, rq_results, rq_all>>
notifyVars == <<active_subscriptions, lastCall, subCalls, ws_pc, connected, pushed>>
matchVars  == <<m_params, m_listing, m_result>>
vars == <<page, db_listings, rq_pc, rq_params, rq_results, rq_all,
          active_subscriptions, lastCall, subCalls, ws_pc, connected, pushed,
          m_params, m_listing, m_result>>

Requests == 1..NumRequests
Sessions == 1..NumSessions

\* the SearchParams clients send to /search
SearchInputs ==
    { NoParams,
      [NoParams EXCEPT !.location = Some("Paris")],
      [NoParams EXCEPT !.body_type = Some("SUV")] }

\* SearchParams that filter on a field CarListing does not declare
NoDataInputs ==
    { [NoParams EXCEPT !.body_type = Some("SUV")],
      [NoParams EXCEPT !.transmission = Some("manual")],
      [NoParams EXCEPT !.color = Some("red")] }

\* SearchParams whose lower bound lies above the upper bound
MalformedInputs ==
    { [NoParams EXCEPT !.min_price = Some(10000), !.max_price = Some(5000)],
      [NoParams EXCEPT !.min_year = Some(2020), !.max_year = Some(2018)] }

\* ------------------------------------------------------ helper operators
\* number of entries of a sequence of listings that carry the url
RECURSIVE CountUrl(_, _)
CountUrl(s, u) ==
    IF s = <<>> THEN 0
    ELSE (IF Head(s).url = u THEN 1 ELSE 0) + CountUrl(Tail(s), u)

\* all_listings.extend(site_results) for each site in turn
RECURSIVE extend_all(_, _)
extend_all(results, i) ==
    IF i > Len(SITES) THEN <<>>
    ELSE results[i].items \o extend_all(results, i + 1)

\* insert_many that stores the first document only
insert_many_first_only(coll, docs) ==
    [u \in Urls |-> coll[u] + (IF docs # <<>> /\ Head(docs).url = u THEN 1 ELSE 0)]

\* insert_many / insert_one: every document is stored as a new document;
\* the collection has no unique index
insert_many(coll, docs) == [u \in Urls |-> coll[u] + CountUrl(docs, u)]

\* find_one({"url": u})
find_one(coll, u) == coll[u] > 0

\* ------------------------------------------------------------ the sites
\* A site puts its next element at the end of its result page.
Publish(i) ==
    /\ Len(page[i]) < MaxPage
    /\ Len(page[i]) < Len(SiteCatalog[i])
    /\ page' = [page EXCEPT ![i] = Append(@, SiteCatalog[i][Len(@) + 1])]
    /\ UNCHANGED <<db_listings, rq_pc, rq_params, rq_results, rq_all>>
    /\ UNCHANGED notifyVars /\ UNCHANGED matchVars

\* ------------------------------------------------------- POST /search
\* search_cars is entered: one scrape_site task per site is created
SearchStart(r, P) ==
    /\ rq_pc[r] = "idle"
    /\ rq_pc' = [rq_pc EXCEPT ![r] = "gather"]
    /\ rq_params' = [rq_params EXCEPT ![r] = P]
    /\ rq_results' = [rq_results EXCEPT ![r] = [i \in SiteIdx |-> Pending]]
    /\ UNCHANGED <<page, db_listings, rq_all>>
    /\ UNCHANGED notifyVars /\ UNCHANGED matchVars

\* one scrape_site task runs to its end
ScrapeSite(r, i, outcome) ==
    /\ rq_pc[r] = "gather"
    /\ rq_results[r][i] = Pending
    /\ rq_results' = [rq_results EXCEPT ![r][i] =
                         scrape_site(SITES[i], page[i], rq_params[r], outcome)]
    /\ UNCHANGED <<page, db_listings, rq_pc, rq_params, rq_all>>
    /\ UNCHANGED notifyVars /\ UNCHANGED matchVars

\* asyncio.gather returns; the results are merged.  Extending the list by
\* None raises TypeError; an empty list is returned without touching the
\* store.  The per-site results are not read again after the merge.
GatherReturns(r) ==
    /\ rq_pc[r] = "gather"
    /\ \A i \in SiteIdx : rq_results[r][i].kind # "pending"
    /\ IF \E i \in SiteIdx : rq_results[r][i].kind = "None"
       THEN /\ rq_pc' = [rq_pc EXCEPT ![r] = "TypeError"]
            /\ rq_all' = [rq_all EXCEPT ![r] = <<>>]
       ELSE LET all_listings == extend_all(rq_results[r], 1)
            IN /\ rq_all' = [rq_all EXCEPT ![r] = all_listings]
               /\ rq_pc' = [rq_pc EXCEPT ![r] =
                               IF all_listings # <<>> THEN "insert" ELSE "returned"]
    /\ rq_results' = [rq_results EXCEPT ![r] = [i \in SiteIdx |-> Pending]]
    /\ UNCHANGED <<page, db_listings, rq_params>>
    /\ UNCHANGED notifyVars /\ UNCHANGED matchVars

\* db.listings.insert_many(all_listings) succeeds and the response is returned
InsertMany(r) ==
    /\ rq_pc[r] = "insert"
    /\ \A u \in Urls : db_listings[u] + CountUrl(rq_all[r], u) <= MaxCopies
    /\ db_listings' = insert_many(db_listings, rq_all[r])
    /\ rq_pc' = [rq_pc EXCEPT ![r] = "returned"]
    /\ UNCHANGED <<page, rq_params, rq_results, rq_all>>
    /\ UNCHANGED notifyVars /\ UNCHANGED matchVars

\* db.listings.insert_many raises (the store is unavailable)
InsertManyFails(r) ==
    /\ rq_pc[r] = "insert"
    /\ rq_pc' = [rq_pc EXCEPT ![r] = "StoreError"]
    /\ rq_all' = [rq_all EXCEPT ![r] = <<>>]
    /\ UNCHANGED <<page, db_listings, rq_params, rq_results>>
    /\ UNCHANGED notifyVars /\ UNCHANGED matchVars

\* the response (or the error) has been delivered; the request is over
SearchDone(r) ==
    /\ rq_pc[r] \in {"returned", "TypeError", "StoreError"}
    /\ rq_pc' = [rq_pc EXCEPT ![r] = "idle"]
    /\ rq_params' = [rq_params EXCEPT ![r] = NoParams]
    /\ rq_all' = [rq_all EXCEPT ![r] = <<>>]
    /\ UNCHANGED <<page, db_listings, rq_results>>
    /\ UNCHANGED notifyVars /\ UNCHANGED matchVars


\* ----------------------------------------------- the subscription set
\* the NotificationParams clients send to /subscribe and /unsubscribe
SubInputs ==
    { [search_params |-> NoParams, email |-> "a@example.org"],
      [search_params |-> NoParams, email |-> "b@example.org"],
      [search_params |-> [NoParams EXCEPT !.location = Some("Paris")],
       email |-> "a@example.org"] }

\* hash() of a NotificationParams.  BaseModel defines __eq__, and neither
\* NotificationParams nor SearchParams declares a frozen Config or a
\* __hash__, so their __hash__ is None and hashing an instance raises
\* TypeError.
Hashable(np) == FALSE

\* set.add(x)
set_add(S, x) ==
    IF Hashable(x) THEN [raised |-> FALSE, set |-> S \cup {x}]
                   ELSE [raised |-> TRUE, set |-> S]

\* x in set
set_contains(S, x) ==
    IF Hashable(x) THEN [raised |-> FALSE, val |-> x \in S]
                   ELSE [raised |-> TRUE, val |-> FALSE]

NoCall == [op |-> "none", params |-> None, result |-> "none"]

\* POST /subscribe
Subscribe(np) ==
    /\ subCalls[np] < MaxCalls
    /\ LET a == set_add(active_subscriptions, np)
       IN /\ active_subscriptions' = a.set
          /\ lastCall' = [op |-> "subscribe", params |-> Some(np),
                          result |-> IF a.raised THEN "TypeError"
                                     ELSE "Subscription created successfully"]
    /\ subCalls' = [subCalls EXCEPT ![np] = @ + 1]
    /\ UNCHANGED <<ws_pc, connected, pushed>>
    /\ UNCHANGED searchVars /\ UNCHANGED matchVars

\* POST /unsubscribe
Unsubscribe(np) ==
    /\ LET c == set_contains(active_subscriptions, np)
       IN IF c.raised
          THEN /\ active_subscriptions' = active_subscriptions
               /\ lastCall' = [op |-> "unsubscribe", params |-> Some(np),
                               result |-> "TypeError"]
          ELSE IF c.val
          THEN /\ active_subscriptions' = active_subscriptions \ {np}
               /\ lastCall' = [op |-> "unsubscribe", params |-> Some(np),
                               result |-> "Subscription deleted successfully"]
          ELSE /\ active_subscriptions' = active_subscriptions
               /\ lastCall' = [op |-> "unsubscribe", params |-> Some(np),
                               result |-> "404 Subscription not found"]
    /\ subCalls' = [subCalls EXCEPT ![np] = 0]
    /\ UNCHANGED <<ws_pc, connected, pushed>>
    /\ UNCHANGED searchVars /\ UNCHANGED matchVars

\* ------------------------------------------------ WS /notifications
\* check_for_new_listings: with no subscription the loop body never runs
\* and [] is returned.  With a subscription, the first iteration subscripts
\* the coroutine object search_cars(...) returns, which raises TypeError
\* before anything is awaited: no site is fetched and the store is neither
\* read nor written.
check_for_new_listings(subs) ==
    IF subs = {} THEN [raised |-> FALSE, new_listings |-> <<>>]
                 ELSE [raised |-> TRUE, new_listings |-> <<>>]

\* websocket.accept(): a client opens a notification session
Connect(ws) ==
    /\ ws_pc[ws] \in {"closed", "failed"}
    /\ ~connected[ws]
    /\ ws_pc' = [ws_pc EXCEPT ![ws] = "loop"]
    /\ connected' = [connected EXCEPT ![ws] = TRUE]
    /\ pushed' = [pushed EXCEPT ![ws] = <<>>]
    /\ UNCHANGED <<active_subscriptions, lastCall, subCalls>>
    /\ UNCHANGED searchVars /\ UNCHANGED matchVars

\* a pass of the loop that sends the message without testing new_listings
Tick_always_sends(ws) ==
    /\ ws_pc[ws] = "loop"
    /\ Len(pushed[ws]) < 2
    /\ LET c == check_for_new_listings(active_subscriptions)
       IN IF c.raised
          THEN /\ ws_pc' = [ws_pc EXCEPT ![ws] = "failed"]
               /\ pushed' = pushed
          ELSE IF connected[ws]
          THEN /\ pushed' = [pushed EXCEPT ![ws] = Append(@, c.new_listings)]
               /\ ws_pc' = [ws_pc EXCEPT ![ws] = "sleep"]
          ELSE /\ ws_pc' = [ws_pc EXCEPT ![ws] = "closed"]
               /\ pushed' = pushed
    /\ UNCHANGED <<active_subscriptions, lastCall, subCalls, connected>>
    /\ UNCHANGED searchVars /\ UNCHANGED matchVars

\* one pass of the while loop up to asyncio.sleep(60).  An exception that
\* is not WebSocketDisconnect leaves the handler; send_json on a closed
\* connection raises WebSocketDisconnect, which breaks the loop.
Tick(ws) ==
    /\ ws_pc[ws] = "loop"
    /\ LET c == check_for_new_listings(active_subscriptions)
       IN IF c.raised
          THEN /\ ws_pc' = [ws_pc EXCEPT ![ws] = "failed"]
               /\ pushed' = pushed
          ELSE IF c.new_listings # <<>>
          THEN IF connected[ws]
               THEN /\ pushed' = [pushed EXCEPT ![ws] = Append(@, c.new_listings)]
                    /\ ws_pc' = [ws_pc EXCEPT ![ws] = "sleep"]
               ELSE /\ ws_pc' = [ws_pc EXCEPT ![ws] = "closed"]
                    /\ pushed' = pushed
          ELSE /\ ws_pc' = [ws_pc EXCEPT ![ws] = "sleep"]
               /\ pushed' = pushed
    /\ UNCHANGED <<active_subscriptions, lastCall, subCalls, connected>>
    /\ UNCHANGED searchVars /\ UNCHANGED matchVars

\* asyncio.sleep(60) is over
Wake(ws) ==
    /\ ws_pc[ws] = "sleep"
    /\ ws_pc' = [ws_pc EXCEPT ![ws] = "loop"]
    /\ UNCHANGED <<active_subscriptions, lastCall, subCalls, connected, pushed>>
    /\ UNCHANGED searchVars /\ UNCHANGED matchVars

\* the remote side of the session goes away
Disconnect(ws) ==
    /\ connected[ws]
    /\ connected' = [connected EXCEPT ![ws] = FALSE]
    /\ UNCHANGED <<active_subscriptions, lastCall, subCalls, ws_pc, pushed>>
    /\ UNCHANGED searchVars /\ UNCHANGED matchVars

\* --------------------------------------------------- matcher harness
MatchParams ==
    { [make |-> mk, model |-> None, min_price |-> lo, max_price |-> hi,
       min_year |-> ylo, max_year |-> yhi, max_mileage |-> km,
       fuel_type |-> fu, location |-> loc, body_type |-> bt,
       transmission |-> tr, color |-> co] :
        mk \in {None, Some("Peugeot")},
        lo \in {None, Some(0), Some(5000)},
        hi \in {None, Some(0), Some(10000)},
        ylo \in {None, Some(2018)},
        yhi \in {None, Some(2018)},
        km \in {None, Some(0), Some(40000)},
        fu \in {None, Some(""), Some("DIESEL")},
        loc \in {None, Some("Paris")},
        bt \in {None, Some("SUV")},
        tr \in {None, Some("manual")},
        co \in {None, Some("red")} }

MatchListings ==
    { Val(parse_listing("leboncoin", a).listing) : a \in {Ad1, Ad2, Ad3} }
    \cup { Val(parse_listing("lacentrale", [Ad2 EXCEPT !.price = pr]).listing) :
             pr \in {5000, 10000} }
    \cup { Val(parse_listing("lacentrale", [Ad3 EXCEPT !.mileage = 0]).listing) }

\* matches_criteria is called on the chosen inputs
MatchEval ==
    /\ m_result = "none"
    /\ m_result' = matches_criteria(m_listing, m_params)
    /\ UNCHANGED <<m_params, m_listing>>
    /\ UNCHANGED searchVars /\ UNCHANGED notifyVars

\* the result is dropped
MatchReset ==
    /\ m_result # "none"
    /\ m_result' = "none"
    /\ UNCHANGED <<m_params, m_listing>>
    /\ UNCHANGED searchVars /\ UNCHANGED notifyVars

\* ------------------------------------------------------ specifications
InitSearch ==
    /\ page = [i \in SiteIdx |-> <<>>]
    /\ db_listings = [u \in Urls |-> 0]
    /\ rq_pc = [r \in Requests |-> "idle"]
    /\ rq_params = [r \in Requests |-> NoParams]
    /\ rq_results = [r \in Requests |-> [i \in SiteIdx |-> Pending]]
    /\ rq_all = [r \in Requests |-> <<>>]

InitNotify ==
    /\ active_subscriptions = {}
    /\ lastCall = NoCall
    /\ subCalls = [np \in SubInputs |-> 0]
    /\ ws_pc = [ws \in Sessions |-> "closed"]
    /\ connected = [ws \in Sessions |-> FALSE]
    /\ pushed = [ws \in Sessions |-> <<>>]

Init ==
    /\ InitSearch
    /\ InitNotify
    /\ m_params = NoParams
    /\ m_listing = Val(parse_listing("leboncoin", Ad1).listing)
    /\ m_result = "none"

\* the service starts while the sites already show their listings
InitStalled ==
    /\ page = [i \in SiteIdx |->
                 IF Len(SiteCatalog[i]) <= MaxPage THEN SiteCatalog[i]
                 ELSE SubSeq(SiteCatalog[i], 1, MaxPage)]
    /\ db_listings = [u \in Urls |-> 0]
    /\ rq_pc = [r \in Requests |-> "idle"]
    /\ rq_params = [r \in Requests |-> NoParams]
    /\ rq_results = [r \in Requests |-> [i \in SiteIdx |-> Pending]]
    /\ rq_all = [r \in Requests |-> <<>>]
    /\ InitNotify
    /\ m_params = NoParams
    /\ m_listing = Val(parse_listing("leboncoin", Ad1).listing)
    /\ m_result = "none"

MatchInit ==
    /\ InitSearch
    /\ InitNotify
    /\ m_params \in MatchParams
    /\ m_listing \in MatchListings
    /\ m_result = "none"

NextSearch ==
    \/ \E i \in SiteIdx : Publish(i)
    \/ \E r \in Requests, P \in SearchInputs : SearchStart(r, P)
    \/ \E r \in Requests, i \in SiteIdx, o \in Outcomes : ScrapeSite(r, i, o)
    \/ \E r \in Requests : GatherReturns(r)
    \/ \E r \in Requests : InsertMany(r)
    \/ \E r \in Requests : InsertManyFails(r)
    \/ \E r \in Requests : SearchDone(r)

NextNotify ==
    \/ \E np \in SubInputs : Subscribe(np)
    \/ \E np \in SubInputs : Unsubscribe(np)
    \/ \E ws \in Sessions : Connect(ws)
    \/ \E ws \in Sessions : Tick(ws)
    \/ \E ws \in Sessions : Wake(ws)
    \/ \E ws \in Sessions : Disconnect(ws)

NextMatch == MatchEval \/ MatchReset

\* POST /search called with SearchParams whose bounds are inverted; no
\* listing lies within such bounds, so nothing reaches insert_many
NextInverted ==
    \/ \E i \in SiteIdx : Publish(i)
    \/ \E r \in Requests, P \in MalformedInputs : SearchStart(r, P)
    \/ \E r \in Requests, i \in SiteIdx, o \in Outcomes : ScrapeSite(r, i, o)
    \/ \E r \in Requests : GatherReturns(r)
    \/ \E r \in Requests : SearchDone(r)

\* POST /search with a filter on a field no listing carries; nothing
\* passes such a filter, so nothing reaches insert_many
NextNoData ==
    \/ \E i \in SiteIdx : Publish(i)
    \/ \E r \in Requests, P \in NoDataInputs : SearchStart(r, P)
    \/ \E r \in Requests, i \in SiteIdx, o \in Outcomes : ScrapeSite(r, i, o)
    \/ \E r \in Requests : GatherReturns(r)
    \/ \E r \in Requests : SearchDone(r)

\* POST /search while a site may stay silent
NextStalled ==
    \/ \E r \in Requests : SearchStart(r, NoParams)
    \/ \E r \in Requests, i \in SiteIdx, o \in StalledOutcomes : ScrapeSite(r, i, o)
    \/ \E r \in Requests : GatherReturns(r)
    \/ \E r \in Requests : InsertMany(r)
    \/ \E r \in Requests : InsertManyFails(r)
    \/ \E r \in Requests : SearchDone(r)

Next == NextSearch \/ NextNotify

\* the whole service
Spec == Init /\ [][Next]_vars
\* the /search pipeline
SearchSpec == Init /\ [][NextSearch]_vars
\* subscriptions and notification sessions, with the sites publishing
NotifySpec ==
    Init /\ [][NextNotify
               \/ \E i \in SiteIdx : Publish(i)]_vars
\* subscriptions and notification sessions; the event loop runs every task
\* that is ready, so a loop pass that can run does run and a sleep ends
SessionFairSpec ==
    /\ Init
    /\ [][NextNotify]_vars
    /\ \A ws \in Sessions : WF_vars(Tick(ws)) /\ WF_vars(Wake(ws))
\* the /search pipeline under filters on undeclared fields
NoDataSpec == Init /\ [][NextNoData]_vars
\* the /search pipeline with silent sites; the event loop runs every
\* scrape_site task it has created and resumes search_cars once gather is done
StalledSpec ==
    /\ InitStalled
    /\ [][NextStalled]_vars
    /\ \A r \in Requests :
          /\ WF_vars(GatherReturns(r))
          /\ \A i \in SiteIdx :
                WF_vars(\E o \in StalledOutcomes : ScrapeSite(r, i, o))
\* matches_criteria on every input of the harness
MatchSpec == MatchInit /\ [][NextMatch]_vars
\* the /search pipeline on SearchParams with inverted bounds
InvertedSpec == Init /\ [][NextInverted]_vars


\* ------------------------------------------------------------ properties
\* a present string filter is met by case-insensitive equality
StrFilterMet(f, v) == f = None \/ lower(Val(f)) = lower(v)

\* the matcher the specification describes: every present field must be
\* satisfied, ranges are inclusive, and a filter on a field the listing has
\* no data for (body type, transmission, color) fails
SpecMatches(L, P) ==
    /\ StrFilterMet(P.make, L.make)
    /\ StrFilterMet(P.model, L.model)
    /\ (P.min_price = None \/ L.price >= Val(P.min_price))
    /\ (P.max_price = None \/ L.price <= Val(P.max_price))
    /\ (P.min_year = None \/ L.year >= Val(P.min_year))
    /\ (P.max_year = None \/ L.year <= Val(P.max_year))
    /\ (P.max_mileage = None \/ L.mileage <= Val(P.max_mileage))
    /\ StrFilterMet(P.fuel_type, L.fuel_type)
    /\ StrFilterMet(P.location, L.location)
    /\ P.body_type = None
    /\ P.transmission = None
    /\ P.color = None

\* the fetch of site i for request r failed (exception or non-200 status)
AdapterFailed(r, i) == rq_results[r][i].via \in {"status", "exception"}

\* C1: every listing in the response of a search matches the request's
\* SearchParams under the matcher of the specification (every present field
\* satisfied).
C1_ResultsMatchParams ==
    \A r \in Requests :
        rq_pc[r] = "returned" =>
            \A k \in 1..Len(rq_all[r]) : SpecMatches(rq_all[r][k], rq_params[r])

\* C2: the listing store never holds more than one document for a url.
C2_OneDocumentPerUrl == \A u \in Urls : db_listings[u] <= 1

\* C3: when one adapter has failed while another has succeeded, the search
\* does not raise when the results are gathered, and its listings are
\* exactly those of the adapters that succeeded, in site order.
C3_PartialFailureIsolated ==
    [][ \A r \in Requests :
          ( /\ GatherReturns(r)
            /\ \E i \in SiteIdx : AdapterFailed(r, i)
            /\ \E j \in SiteIdx : ~AdapterFailed(r, j) )
          => /\ rq_pc'[r] \in {"insert", "returned"}
             /\ rq_all'[r] = extend_all(
                    [i \in SiteIdx |-> IF AdapterFailed(r, i)
                                       THEN [rq_results[r][i] EXCEPT !.items = <<>>]
                                       ELSE rq_results[r][i]], 1) ]_vars

\* C6: the response of a search carries each url at most once, and for each
\* url it carries the store then holds exactly one document.
C6_ResponseDeduplicated ==
    \A r \in Requests :
        rq_pc[r] = "returned" =>
            \A u \in Urls :
                /\ CountUrl(rq_all[r], u) <= 1
                /\ CountUrl(rq_all[r], u) = 1 => db_listings[u] = 1

\* C10: when a search has returned, every url of its response is in the store.
C10_ReturnedListingsPersisted ==
    \A r \in Requests :
        rq_pc[r] = "returned" =>
            \A k \in 1..Len(rq_all[r]) : find_one(db_listings, rq_all[r][k].url)

\* a search has returned two listings or more
C10_Witness ==
    \E r \in Requests : rq_pc[r] = "returned" /\ Len(rq_all[r]) >= 2


\* C4: the second of two /subscribe calls with the same NotificationParams
\* reports a duplicate, and the subscription set then holds exactly one
\* entry equal to it.
C4_SecondSubscribeIsDuplicate ==
    \A np \in SubInputs :
        ( /\ lastCall.op = "subscribe"
          /\ lastCall.params = Some(np)
          /\ subCalls[np] >= 2 )
        => /\ lastCall.result = "duplicate"
           /\ Cardinality({x \in active_subscriptions : x = np}) = 1

\* C5: /unsubscribe of a NotificationParams that is not in the subscription
\* set answers not-found and leaves the set as it was; /unsubscribe of one
\* that is in the set removes that entry and no other.
C5_UnsubscribeOutcome ==
    [][ \A np \in SubInputs :
          Unsubscribe(np) =>
            IF np \in active_subscriptions
            THEN /\ active_subscriptions' = active_subscriptions \ {np}
                 /\ lastCall'.result = "Subscription deleted successfully"
            ELSE /\ active_subscriptions' = active_subscriptions
                 /\ lastCall'.result = "404 Subscription not found" ]_vars

\* site i shows an element that parses to a listing with url u which
\* matches the SearchParams P
Offers(i, u, P) ==
    \E k \in 1..Len(page[i]) :
        LET p == parse_listing(SITES[i], page[i][k])
        IN /\ ~p.raised
           /\ Val(p.listing).url = u
           /\ SpecMatches(Val(p.listing), P)

\* message m of a notification session carries a listing with url u
Carries(m, u) == \E k \in 1..Len(m) : m[k].url = u

\* C7: when a tick starts while a site offers a listing that matches a
\* subscription a client has made and whose url is not in the store, the
\* tick pushes a message with that listing to the session and the url is in
\* the store when the tick ends.
C7_TickPushesNewListing ==
    [][ \A ws \in Sessions, np \in SubInputs, u \in Urls :
          ( /\ Tick(ws)
            /\ connected[ws]
            /\ subCalls[np] > 0
            /\ \E i \in SiteIdx : Offers(i, u, np.search_params)
            /\ ~find_one(db_listings, u) )
          => /\ Len(pushed'[ws]) = Len(pushed[ws]) + 1
             /\ Carries(pushed'[ws][Len(pushed'[ws])], u)
             /\ find_one(db_listings', u) ]_vars

\* a present range bound that the listing lies strictly outside of
RangeViolated(L, P) ==
    \/ P.min_price # None /\ L.price < Val(P.min_price)
    \/ P.max_price # None /\ L.price > Val(P.max_price)
    \/ P.min_year # None /\ L.year < Val(P.min_year)
    \/ P.max_year # None /\ L.year > Val(P.max_year)
    \/ P.max_mileage # None /\ L.mileage > Val(P.max_mileage)

\* no filter but range filters is set
OnlyRangeFilters(P) ==
    /\ P.make = None /\ P.model = None /\ P.fuel_type = None
    /\ P.location = None /\ P.body_type = None
    /\ P.transmission = None /\ P.color = None

\* C9: range filters are inclusive for every bound that is present: a
\* listing strictly outside a present bound is excluded, and a listing
\* within all present bounds (a value equal to a bound included) is
\* included when no other filter is set.
C9_RangeFiltersInclusive ==
    m_result # "none" =>
        /\ RangeViolated(m_listing, m_params) => m_result # "True"
        /\ (OnlyRangeFilters(m_params) /\ ~RangeViolated(m_listing, m_params))
              => m_result = "True"


\* the SearchParams are malformed: a lower bound above its upper bound
Malformed(P) ==
    \/ P.min_price # None /\ P.max_price # None /\ Val(P.min_price) > Val(P.max_price)
    \/ P.min_year # None /\ P.max_year # None /\ Val(P.min_year) > Val(P.max_year)

\* C11: a search whose SearchParams are malformed is rejected and never
\* executed: no request with such params is gathering, inserting or
\* returning a listing result.
C11_MalformedParamsRejected ==
    \A r \in Requests :
        Malformed(rq_params[r]) => rq_pc[r] \notin {"gather", "insert", "returned"}


C14_NoTickAfterDisconnect ==
    [][ \A ws \in Sessions : Tick(ws) => connected[ws] ]_vars

\* C15: whenever the remote side of a running notification session has
\* disconnected, the session's loop eventually terminates.
C15_DisconnectTerminatesLoop ==
    \A ws \in Sessions :
        (ws_pc[ws] \in {"loop", "sleep"} /\ ~connected[ws])
            ~> (ws_pc[ws] \in {"closed", "failed"})


\* what the sites that did answer contributed, in site order
RECURSIVE answered_items(_, _)
answered_items(results, i) ==
    IF i > Len(SITES) THEN <<>>
    ELSE (IF results[i].via = "hang" THEN <<>> ELSE results[i].items)
         \o answered_items(results, i + 1)

\* C17: a search leaves the fan-in even when a site never answers: the
\* silent site's fetch ends with an empty contribution, and the merged
\* listings are those of the sites that answered.
C17_SearchTerminatesWhenSiteHangs ==
    /\ \A r \in Requests : (rq_pc[r] = "gather") ~> (rq_pc[r] # "gather")
    /\ [](\A r \in Requests, i \in SiteIdx :
            rq_results[r][i].via = "hang"
                => rq_results[r][i].kind = "list" /\ rq_results[r][i].items = <<>>)
    /\ [][ \A r \in Requests :
             ( /\ GatherReturns(r)
               /\ \E i \in SiteIdx : rq_results[r][i].via = "hang"
               /\ \A i \in SiteIdx : rq_results[r][i].kind # "None" )
             => /\ rq_pc'[r] \in {"insert", "returned"}
                /\ rq_all'[r] = answered_items(rq_results[r], 1) ]_vars

C17_Witness ==
    \E r \in Requests, i, j \in SiteIdx :
        /\ rq_pc[r] = "gather"
        /\ rq_results[r][i].via = "hang"
        /\ rq_results[r][j].via = "200"
        /\ rq_results[r][j].items # <<>>


\* C18: a disconnect leaves the subscription set, the store, the running
\* searches and every other session as they were, and the disconnected
\* session's loop ends at its next pass at the latest.
C18_DisconnectEndsOnlyItsSession ==
    [][ \A ws \in Sessions :
          /\ Disconnect(ws)
                => /\ active_subscriptions' = active_subscriptions
                   /\ db_listings' = db_listings
                   /\ rq_pc' = rq_pc
                   /\ \A o \in Sessions \ {ws} :
                         /\ ws_pc'[o] = ws_pc[o]
                         /\ connected'[o] = connected[o]
                         /\ pushed'[o] = pushed[o]
          /\ (Tick(ws) /\ ~connected[ws])
                => ws_pc'[ws] \in {"closed", "failed"} ]_vars

\* P filters on a field that CarListing does not declare
FiltersOnNoData(P) ==
    TruthyStr(P.body_type) \/ TruthyStr(P.transmission) \/ TruthyStr(P.color)

====
